---- MODULE Spec2Model ----
(***************************************************************************)
(* fetch_economic_data.py: the IMF / World Bank fetcher.                   *)
(*                                                                         *)
(* main() is modelled as a state machine (specification Spec): one adapter *)
(* call per indicator, each call's GET attempts, the parse of the reply,   *)
(* the accumulation in all_data, cleaning and the CSV exports.             *)
(* get_imf_data, get_world_bank_data and clean_data are operators computed *)
(* as the code computes them, on a small model of Python/JSON values; the  *)
(* specification SpecFn starts them on every input of a bounded universe.  *)
(***************************************************************************)
EXTENDS Integers, Sequences, FiniteSets, TLC

VARIABLES
    mode,            \* "main": a run of main(); otherwise the function started alone
    pc,              \* position in main() / in the function
    idx,             \* main: index of the indicator being fetched in its table
    attempt,         \* make_request: the loop variable `attempt`
    outcomes,        \* make_request: what each GET of the current call did
    indicator_code,  \* adapter argument
    country_codes,   \* adapter argument
    response,        \* what make_request returned to the adapter
    data_points,     \* what the adapter returned
    raised,          \* the exception that escaped ("none" when none did)
    logged,          \* the adapter printed "Error parsing IMF response"
    all_data,        \* main: the accumulated records
    calls,           \* main: the adapter invocations so far, <<source, indicator>>
    df,              \* clean_data argument
    df_clean,        \* clean_data result
    files,           \* export_to_csv calls so far: [name, ts, rows]
    reported,        \* main printed "No data retrieved"
    now,             \* the wall clock, in ticks
    timestamp        \* main: the run's timestamp string (as seconds)

vars == <<mode, pc, idx, attempt, outcomes, indicator_code, country_codes, response,
          data_points, raised, logged, all_data, calls, df, df_clean, files,
          reported, now, timestamp>>

(***************************************************************************)
(* Bounds of the model.                                                    *)
(***************************************************************************)
\* (year, value) entries in one fund-API reply, over all its countries
MaxItems == 2
\* entries in the second element of one bank-API reply
MaxEntries == 2
\* rows of a data frame handed to clean_data alone
MaxRows == 2
\* country codes in one requested list
MaxRequested == 2
\* ticks the clock may advance while main exports
MaxClock == 2
\* clock ticks per second (strftime's %S resolution)
TicksPerSecond == 2

(***************************************************************************)
(* Configuration (lines 28-128).                                           *)
(***************************************************************************)
START_YEAR == 2018
END_YEAR == 2024
max_retries == 3

COUNTRIES ==
    "BRA" :> [name |-> "Brazil", region |-> "Latin America"] @@
    "MEX" :> [name |-> "Mexico", region |-> "Latin America"] @@
    "ARG" :> [name |-> "Argentina", region |-> "Latin America"] @@
    "COL" :> [name |-> "Colombia", region |-> "Latin America"] @@
    "CHL" :> [name |-> "Chile", region |-> "Latin America"] @@
    "PER" :> [name |-> "Peru", region |-> "Latin America"] @@
    "ZAF" :> [name |-> "South Africa", region |-> "Africa"] @@
    "NGA" :> [name |-> "Nigeria", region |-> "Africa"] @@
    "KEN" :> [name |-> "Kenya", region |-> "Africa"] @@
    "EGY" :> [name |-> "Egypt", region |-> "Africa"] @@
    "GHA" :> [name |-> "Ghana", region |-> "Africa"] @@
    "ETH" :> [name |-> "Ethiopia", region |-> "Africa"] @@
    "IND" :> [name |-> "India", region |-> "Asia"] @@
    "IDN" :> [name |-> "Indonesia", region |-> "Asia"] @@
    "PHL" :> [name |-> "Philippines", region |-> "Asia"] @@
    "VNM" :> [name |-> "Vietnam", region |-> "Asia"] @@
    "BGD" :> [name |-> "Bangladesh", region |-> "Asia"] @@
    "THA" :> [name |-> "Thailand", region |-> "Asia"] @@
    "MYS" :> [name |-> "Malaysia", region |-> "Asia"] @@
    "POL" :> [name |-> "Poland", region |-> "Europe"] @@
    "ROU" :> [name |-> "Romania", region |-> "Europe"] @@
    "TUR" :> [name |-> "Turkey", region |-> "Europe"] @@
    "UKR" :> [name |-> "Ukraine", region |-> "Europe"] @@
    "JOR" :> [name |-> "Jordan", region |-> "Middle East"] @@
    "LBN" :> [name |-> "Lebanon", region |-> "Middle East"]

\* list(COUNTRIES.keys()): the keys in insertion order (line 346)
COUNTRY_KEYS ==
    <<"BRA", "MEX", "ARG", "COL", "CHL", "PER", "ZAF", "NGA", "KEN", "EGY", "GHA",
      "ETH", "IND", "IDN", "PHL", "VNM", "BGD", "THA", "MYS", "POL", "ROU", "TUR",
      "UKR", "JOR", "LBN">>

\* IMF_INDICATORS: code -> display name, and the keys in insertion order
IMF_INDICATORS ==
    "NGDP_RPCH" :> "GDP Growth Rate (Annual %)" @@
    "PCPIPCH" :> "Inflation Rate (CPI)" @@
    "GGXWDG_NGDP" :> "Government Debt (% of GDP)" @@
    "GGXCNL_NGDP" :> "Fiscal Balance (% of GDP)" @@
    "GGR_NGDP" :> "Government Revenue (% of GDP)" @@
    "GGX_NGDP" :> "Government Expenditure (% of GDP)" @@
    "BCA_NGDPD" :> "Current Account Balance (% of GDP)" @@
    "LUR" :> "Unemployment Rate"

IMF_KEYS ==
    <<"NGDP_RPCH", "PCPIPCH", "GGXWDG_NGDP", "GGXCNL_NGDP", "GGR_NGDP", "GGX_NGDP",
      "BCA_NGDPD", "LUR">>

WB_INDICATORS ==
    "SE.XPD.TOTL.GD.ZS" :> "Education Expenditure (% of GDP)" @@
    "IS.RRS.TOTL.KM" :> "Railway Infrastructure" @@
    "SP.POP.TOTL" :> "Population" @@
    "NY.GNP.PCAP.CD" :> "GNI per Capita" @@
    "IE.PPI.ENGY.CD" :> "Infrastructure Investment (Energy)"

WB_KEYS ==
    <<"SE.XPD.TOTL.GD.ZS", "IS.RRS.TOTL.KM", "SP.POP.TOTL", "NY.GNP.PCAP.CD",
      "IE.PPI.ENGY.CD">>

(***************************************************************************)
(* Python / JSON values.  Every value is a tagged record; a dict keeps its *)
(* items in insertion order, as Python does.  Numbers are integers here:   *)
(* float() of a number is that number.                                     *)
(***************************************************************************)
None == [t |-> "null"]
Num(n) == [t |-> "num", v |-> n]
Str(s) == [t |-> "str", s |-> s]
List(es) == [t |-> "list", elems |-> es]
Dict(kvs) == [t |-> "dict", items |-> kvs]

\* the decimal numerals that occur in the modelled replies
Numerals ==
    "2017" :> 2017 @@ "2018" :> 2018 @@ "2024" :> 2024 @@ "2025" :> 2025 @@
    "5" :> 5 @@ "7" :> 7

Ok(x) == [ok |-> TRUE, v |-> x]
Exc(e) == [ok |-> FALSE, exc |-> e]

RECURSIVE SeqToSet(_)
SeqToSet(s) == IF s = <<>> THEN {} ELSE {Head(s)} \cup SeqToSet(Tail(s))

Keys(d) == {d.items[i][1] : i \in 1..Len(d.items)}
Lookup(d, k) == LET i == CHOOSE j \in 1..Len(d.items) : d.items[j][1] = k
                IN  d.items[i][2]

\* bool(x), as `not response` and `if year` use it
Truthy(x) ==
    CASE x.t = "null" -> FALSE
      [] x.t = "num" -> x.v # 0
      [] x.t = "str" -> x.s # ""
      [] x.t = "list" -> x.elems # <<>>
      [] x.t = "dict" -> x.items # <<>>

\* `key in x` for a string key: membership of a dict's keys or a list's elements,
\* substring of a string (the modelled strings contain none of the keys unless they
\* equal it), TypeError for None and numbers
PyIn(key, x) ==
    CASE x.t = "dict" -> Ok(key \in Keys(x))
      [] x.t = "list" -> Ok(\E i \in 1..Len(x.elems) : x.elems[i] = Str(key))
      [] x.t = "str" -> Ok(x.s = key)
      [] OTHER -> Exc("TypeError")

\* x[key] for a string key: a dict's value or KeyError; TypeError for the rest
PyGetItem(x, key) ==
    IF x.t = "dict"
    THEN IF key \in Keys(x) THEN Ok(Lookup(x, key)) ELSE Exc("KeyError")
    ELSE Exc("TypeError")

\* int(x): a number, a numeral string; ValueError for other strings, TypeError
\* for None, lists and dicts
PyInt(x) ==
    CASE x.t = "num" -> Ok(x.v)
      [] x.t = "str" -> IF x.s \in DOMAIN Numerals THEN Ok(Numerals[x.s])
                        ELSE Exc("ValueError")
      [] OTHER -> Exc("TypeError")

\* float(x): as int(x) on the modelled values
PyFloat(x) ==
    CASE x.t = "num" -> Ok(x.v)
      [] x.t = "str" -> IF x.s \in DOMAIN Numerals THEN Ok(Numerals[x.s])
                        ELSE Exc("ValueError")
      [] OTHER -> Exc("TypeError")

\* x.get(key, default) and x.items(): AttributeError unless x is a dict
HasDictMethods(x) == x.t = "dict"
PyGet(x, key, default) == IF key \in Keys(x) THEN Lookup(x, key) ELSE default

(***************************************************************************)
(* The adapters' common pieces.                                            *)
(***************************************************************************)
\* a variant of InBounds that forgets the upper bound
InBoundsFromStart(year) == START_YEAR <= year

\* START_YEAR <= year <= END_YEAR (lines 201, 263)
InBounds(year) == START_YEAR <= year /\ year <= END_YEAR

\* a variant of LookupCountry that answers an unknown code with a default entry
LookupCountryOrDefault(country_code) ==
    Ok(IF country_code \in DOMAIN COUNTRIES THEN COUNTRIES[country_code]
       ELSE [name |-> "Unknown", region |-> "Unknown"])

\* COUNTRIES[country_code] (lines 204-205, 266-267): KeyError for an unknown code
LookupCountry(country_code) ==
    IF country_code \in DOMAIN COUNTRIES THEN Ok(COUNTRIES[country_code])
    ELSE Exc("KeyError")

\* the dict appended to data_points (lines 202-211, 264-273)
Record(country_code, entry, year, name, indicator, value, source) ==
    [Country_Code |-> country_code, Country |-> Str(entry.name),
     Region |-> entry.region, Year |-> Num(year), Indicator_Name |-> Str(name),
     Indicator_Code |-> indicator, Value |-> value, Source |-> source]

\* what an adapter call comes to: the exception that escaped it, if any, whether
\* it logged a parse error, and the list it returned
Returned(data, log) == [raised |-> "none", logged |-> log, data |-> data]
Escaped(e) == [raised |-> e, logged |-> FALSE, data |-> <<>>]

(***************************************************************************)
(* get_imf_data (lines 161-217), from the reply of make_request on.        *)
(***************************************************************************)
\* a variant of ImfValue that nulls every value it cannot convert
ImfValueNulled(value) ==
    LET f == PyFloat(value) IN IF f.ok THEN Ok(Num(f.v)) ELSE Ok(None)

\* "Value": float(value) if value != "" else None   (line 209)
ImfValue(value) ==
    IF value # Str("")
    THEN LET f == PyFloat(value) IN IF f.ok THEN Ok(Num(f.v)) ELSE f
    ELSE Ok(None)

\* the body of the inner try (lines 200-211) for one item of country_data:
\* "skip" (nothing appended, or ValueError/TypeError caught at line 212), "emit",
\* or "raise" (an exception line 212 does not catch)
ImfItem(ind_code, country_code, year_str, value) ==
    LET year == PyInt(Str(year_str)) IN
    IF ~year.ok THEN [k |-> "skip"]
    ELSE IF ~(InBounds(year.v) /\ value # None) THEN [k |-> "skip"]
    ELSE LET entry == LookupCountry(country_code) IN
         IF ~entry.ok THEN [k |-> "raise", exc |-> entry.exc]
         ELSE LET val == ImfValue(value) IN
              IF ~val.ok THEN [k |-> "skip"]
              ELSE [k |-> "emit",
                    rec |-> Record(country_code, entry.v, year.v,
                                   IMF_INDICATORS[ind_code], ind_code,
                                   val.v, "IMF")]

\* for year_str, value in country_data.items()   (lines 198-213)
RECURSIVE ImfYears(_, _, _, _)
ImfYears(ind_code, country_code, items, acc) ==
    IF items = <<>> THEN [exc |-> "none", data |-> acc]
    ELSE LET r == ImfItem(ind_code, country_code, Head(items)[1], Head(items)[2]) IN
         CASE r.k = "skip" -> ImfYears(ind_code, country_code, Tail(items), acc)
           [] r.k = "emit" -> ImfYears(ind_code, country_code, Tail(items),
                                       Append(acc, r.rec))
           [] r.k = "raise" -> [exc |-> r.exc, data |-> acc]

\* country_data.items() (line 198): AttributeError unless country_data is a dict;
\* the except clause of line 214 names KeyError and TypeError only
CountryItems(country_data) ==
    IF HasDictMethods(country_data) THEN Ok(country_data.items)
    ELSE Exc("AttributeError")

\* except (KeyError, TypeError) (line 214)
ImfCaught(e) == e \in {"KeyError", "TypeError"}

\* an exception inside the outer try: logged and swallowed when line 214 names
\* it, escaping get_imf_data otherwise
ImfHandle(e, acc) == IF ImfCaught(e) THEN Returned(acc, TRUE) ELSE Escaped(e)

\* for country_code in country_codes   (lines 193-213)
RECURSIVE ImfCountries(_, _, _, _)
ImfCountries(ind_code, indicator_data, codes, acc) ==
    IF codes = <<>> THEN Returned(acc, FALSE)
    ELSE LET has == PyIn(Head(codes), indicator_data) IN
         IF ~has.ok THEN ImfHandle(has.exc, acc)
         ELSE IF ~has.v THEN ImfCountries(ind_code, indicator_data, Tail(codes), acc)
         ELSE LET country_data == PyGetItem(indicator_data, Head(codes)) IN
              IF ~country_data.ok THEN ImfHandle(country_data.exc, acc)
              ELSE LET items == CountryItems(country_data.v) IN
                   IF ~items.ok THEN ImfHandle(items.exc, acc)
                   ELSE LET r == ImfYears(ind_code, Head(codes), items.v, acc) IN
                        IF r.exc # "none" THEN ImfHandle(r.exc, r.data)
                        ELSE ImfCountries(ind_code, indicator_data, Tail(codes),
                                          r.data)

\* lines 184-217
get_imf_data(code, codes, resp) ==
    IF ~Truthy(resp) THEN Returned(<<>>, FALSE)
    ELSE LET hasValues == PyIn("values", resp) IN
         IF ~hasValues.ok THEN ImfHandle(hasValues.exc, <<>>)
         ELSE IF ~hasValues.v THEN Returned(<<>>, FALSE)
         ELSE LET values == PyGetItem(resp, "values") IN
              IF ~values.ok THEN ImfHandle(values.exc, <<>>)
              ELSE LET hasCode == PyIn(code, values.v) IN
                   IF ~hasCode.ok THEN ImfHandle(hasCode.exc, <<>>)
                   ELSE IF ~hasCode.v THEN Returned(<<>>, FALSE)
                   ELSE LET indicator_data == PyGetItem(values.v, code) IN
                        IF ~indicator_data.ok THEN ImfHandle(indicator_data.exc, <<>>)
                        ELSE ImfCountries(code, indicator_data.v, codes, <<>>)

(***************************************************************************)
(* get_world_bank_data (lines 220-279), from the reply of make_request on. *)
(***************************************************************************)
\* `for record in data` (line 253): a list yields its elements, a dict its keys;
\* None and numbers are not iterable (TypeError, outside every try)
Iterate(data) ==
    CASE data.t = "list" -> Ok(data.elems)
      [] data.t = "dict" -> Ok([i \in 1..Len(data.items) |-> Str(data.items[i][1])])
      [] data.t \in {"null", "num"} -> Exc("TypeError")

\* `country_code in COUNTRIES` (line 256): a list or dict is unhashable (TypeError)
InCountries(country_code) ==
    CASE country_code.t = "str" -> Ok(country_code.s \in DOMAIN COUNTRIES)
      [] country_code.t \in {"null", "num"} -> Ok(FALSE)
      [] OTHER -> Exc("TypeError")

\* except (KeyError, TypeError) (line 276)
WbCaught(e) == e \in {"KeyError", "TypeError"}

\* the body of the for loop (lines 254-277) for one element of data: "skip",
\* "emit", or "raise"
WbRecord(ind_code, record) ==
    IF ~HasDictMethods(record)
    THEN IF WbCaught("AttributeError") THEN [k |-> "skip"]
         ELSE [k |-> "raise", exc |-> "AttributeError"]
    ELSE LET country_code == PyGet(record, "countryiso3code", Str(""))
             known == InCountries(country_code)
         IN  IF ~known.ok
             THEN IF WbCaught(known.exc) THEN [k |-> "skip"]
                  ELSE [k |-> "raise", exc |-> known.exc]
             ELSE IF ~known.v THEN [k |-> "skip"]
             ELSE LET year == PyGet(record, "date", Str(""))
                      value == PyGet(record, "value", None)
                  IN  IF ~(Truthy(year) /\ value # None) THEN [k |-> "skip"]
                      ELSE LET year_int == PyInt(year) IN
                           IF ~year_int.ok THEN [k |-> "skip"]
                           ELSE IF ~InBounds(year_int.v) THEN [k |-> "skip"]
                           ELSE LET entry == LookupCountry(country_code.s)
                                    val == PyFloat(value)
                                IN  IF ~entry.ok THEN [k |-> "skip"]
                                    ELSE IF ~val.ok THEN [k |-> "skip"]
                                    ELSE [k |-> "emit",
                                          rec |-> Record(country_code.s, entry.v,
                                                         year_int.v,
                                                         WB_INDICATORS[ind_code],
                                                         ind_code, Num(val.v),
                                                         "World Bank")]

RECURSIVE WbRecords(_, _, _)
WbRecords(ind_code, records, acc) ==
    IF records = <<>> THEN Returned(acc, FALSE)
    ELSE LET r == WbRecord(ind_code, Head(records)) IN
         CASE r.k = "skip" -> WbRecords(ind_code, Tail(records), acc)
           [] r.k = "emit" -> WbRecords(ind_code, Tail(records), Append(acc, r.rec))
           [] r.k = "raise" -> Escaped(r.exc)

\* lines 247-279
get_world_bank_data(code, codes, resp) ==
    IF ~Truthy(resp) \/ resp.t # "list" \/ Len(resp.elems) < 2 THEN Returned(<<>>, FALSE)
    ELSE LET records == Iterate(resp.elems[2]) IN
         IF ~records.ok THEN Escaped(records.exc)
         ELSE WbRecords(code, records.v, <<>>)

(***************************************************************************)
(* clean_data (lines 282-307).  NaN, None and <NA> are one missing value.  *)
(***************************************************************************)
IsNA(x) == x = None

\* df.dropna(subset=["Country", "Year", "Indicator_Name"])   (line 295)
DropNA(d) ==
    SelectSeq(d, LAMBDA r : ~IsNA(r.Country) /\ ~IsNA(r.Year) /\ ~IsNA(r.Indicator_Name))

\* pd.to_numeric(x, errors="coerce") (lines 298-299): a number, the number a
\* numeral string denotes, missing for everything else
ToNumeric(x) ==
    CASE x.t = "num" -> x
      [] x.t = "str" -> IF x.s \in DOMAIN Numerals THEN Num(Numerals[x.s]) ELSE None
      [] OTHER -> None

\* lines 298-299 on one row
Coerce(r) == [r EXCEPT !.Year = ToNumeric(r.Year), !.Value = ToNumeric(r.Value)]

\* the Country and Indicator_Name strings, in Python's string order
CountryOrder ==
    <<"Argentina", "Bangladesh", "Brazil", "Chile", "Colombia", "Egypt", "Ethiopia",
      "Ghana", "India", "Indonesia", "Jordan", "Kenya", "Lebanon", "Malaysia",
      "Mexico", "Nigeria", "Peru", "Philippines", "Poland", "Romania",
      "South Africa", "Thailand", "Turkey", "Ukraine", "Vietnam">>

IndicatorOrder ==
    <<"Current Account Balance (% of GDP)", "Education Expenditure (% of GDP)",
      "Fiscal Balance (% of GDP)", "GDP Growth Rate (Annual %)", "GNI per Capita",
      "Government Debt (% of GDP)", "Government Expenditure (% of GDP)",
      "Government Revenue (% of GDP)", "Inflation Rate (CPI)",
      "Infrastructure Investment (Energy)", "Population", "Railway Infrastructure",
      "Unemployment Rate">>

Rank(order, x) == CHOOSE i \in 1..Len(order) : order[i] = x.s

\* a variant of SortKey that sorts by Year before Country
SortKeyYearFirst(r) ==
    <<IF IsNA(r.Year) THEN 1 ELSE 0,
      IF IsNA(r.Year) THEN 0 ELSE r.Year.v,
      IF IsNA(r.Country) THEN Len(CountryOrder) + 1 ELSE Rank(CountryOrder, r.Country),
      IF IsNA(r.Indicator_Name) THEN Len(IndicatorOrder) + 1
      ELSE Rank(IndicatorOrder, r.Indicator_Name)>>

\* a row's sort key for ["Country", "Year", "Indicator_Name"] (line 302), as
\* integers; a missing value sorts after every present one (na_position="last")
SortKey(r) ==
    <<IF IsNA(r.Country) THEN Len(CountryOrder) + 1 ELSE Rank(CountryOrder, r.Country),
      IF IsNA(r.Year) THEN 1 ELSE 0,
      IF IsNA(r.Year) THEN 0 ELSE r.Year.v,
      IF IsNA(r.Indicator_Name) THEN Len(IndicatorOrder) + 1
      ELSE Rank(IndicatorOrder, r.Indicator_Name)>>

\* the keys' lexicographic order: -1, 0 or 1
LexCmp(k, l) ==
    LET diff == {i \in 1..Len(k) : k[i] # l[i]} IN
    IF diff = {} THEN 0
    ELSE LET i == CHOOSE j \in diff : \A m \in diff : j <= m
         IN  IF k[i] < l[i] THEN -1 ELSE 1

\* ascending comparison of two rows (line 302)
KeyCmp(a, b) == LexCmp(SortKey(a), SortKey(b))

\* a variant of InsertSorted that is not stable: r goes before the rows with its key
InsertBeforeEqual(r, s) ==
    LET after == {i \in 1..Len(s) : KeyCmp(r, s[i]) <= 0}
        p == IF after = {} THEN Len(s) + 1
             ELSE CHOOSE i \in after : \A j \in after : i <= j
    IN  SubSeq(s, 1, p - 1) \o <<r>> \o SubSeq(s, p, Len(s))

\* where the stable sort puts row r in the sorted rows s: after every row whose
\* key is not greater (a sort on several columns is a lexsort, which is stable)
InsertSorted(r, s) ==
    LET after == {i \in 1..Len(s) : KeyCmp(r, s[i]) < 0}
        p == IF after = {} THEN Len(s) + 1
             ELSE CHOOSE i \in after : \A j \in after : i <= j
    IN  SubSeq(s, 1, p - 1) \o <<r>> \o SubSeq(s, p, Len(s))

\* df_clean.sort_values([...]) (line 302); reset_index (line 305) renumbers the
\* rows 1..n, which a sequence's positions already are
RECURSIVE SortValues(_)
SortValues(d) ==
    IF d = <<>> THEN <<>>
    ELSE InsertSorted(d[Len(d)], SortValues(SubSeq(d, 1, Len(d) - 1)))

clean_data(d) ==
    LET dropped == DropNA(d)
        typed == [i \in 1..Len(dropped) |-> Coerce(dropped[i])]
    IN  SortValues(typed)

(***************************************************************************)
(* The replies and frames the functions are started on.                    *)
(***************************************************************************)
\* the codes a requested list or a reply may hold: two of COUNTRIES, one not
ReqCodes == {"BRA", "MEX", "XXX"}

\* requested lists: the duplicate-free lists of 1..MaxRequested codes
ReqLists ==
    {l \in UNION {[1..n -> ReqCodes] : n \in 1..MaxRequested} :
        \A i, j \in 1..Len(l) : i # j => l[i] # l[j]}

\* year keys of a fund-API reply: around both bounds, and one that is no number
YearKeys == {"2017", "2018", "2024", "2025", "abc"}

\* raw values: null, a number, a numeral string, "", text, a list
RawValues == {None, Num(5), Str("7"), Str(""), Str("abc"), List(<<>>)}

\* a country's entry with exactly n (year, value) items; with none, also the
\* entries that are no mapping, and the country left out of the reply
Absent == [t |-> "absent"]
CountryEntries(n) ==
    IF n = 0 THEN {Absent, List(<<>>), Dict(<<>>)}
    ELSE {Dict(kvs) : kvs \in {l \in [1..n -> YearKeys \X RawValues] :
                                  \A i, j \in 1..n : i # j => l[i][1] # l[j][1]}}

Present(kvs) == SelectSeq(kvs, LAMBDA kv : kv[2] # Absent)

\* {"values": {code: indicator_data}}
ImfReply(code, indicator_data) ==
    Dict(<< <<"values", Dict(<< <<code, indicator_data>> >>)>> >>)

\* replies whose indicator entry maps the three codes, MaxItems items in all
ImfMappedReplies(code) ==
    {ImfReply(code, Dict(Present(<< <<"BRA", e[1]>>, <<"MEX", e[2]>>, <<"XXX", e[3]>> >>))) :
        e \in UNION {CountryEntries(n[1]) \X CountryEntries(n[2]) \X CountryEntries(n[3]) :
                       n \in {m \in (0..MaxItems) \X (0..MaxItems) \X (0..MaxItems) :
                                 m[1] + m[2] + m[3] <= MaxItems}}}

\* replies of another shape, at each nesting level
ImfOddReplies(code) ==
    {None, Dict(<<>>), Num(5), List(<<Num(1)>>), Str("values"),
     Dict(<< <<"error", Str("abc")>> >>),
     Dict(<< <<"values", None>> >>),
     Dict(<< <<"values", Num(5)>> >>),
     Dict(<< <<"values", List(<<Str(code)>>)>> >>),
     Dict(<< <<"values", Str(code)>> >>),
     ImfReply("GGR_NGDP", Dict(<<>>)),
     ImfReply(code, None),
     ImfReply(code, Dict(<< <<"BRA", None>> >>)),
     ImfReply(code, Num(5)),
     ImfReply(code, List(<<Str("BRA")>>)),
     ImfReply(code, Str("BRA"))}

ImfReplies(code) == ImfMappedReplies(code) \cup ImfOddReplies(code)

\* one entry of a bank-API reply: an object with or without each field, or no
\* object at all
WbCodes == {Absent, Str("BRA"), Str("XXX"), List(<<>>)}
WbDates == {Absent, Str("2024"), Str("2025"), Str("abc"), None}
WbValues == {None, Num(5), Str("7"), Str(""), Str("abc")}
WbEntry(c, d, v) ==
    Dict(Present(<< <<"countryiso3code", c>>, <<"date", d>>, <<"value", v>> >>))
WbEntries ==
    {WbEntry(c, d, v) : <<c, d, v>> \in WbCodes \X WbDates \X WbValues}
        \cup {Str("x"), None}

Meta == Dict(<< <<"page", Num(1)>> >>)

\* [metadata, data]: data a list of up to MaxEntries entries, or null
WbReplies ==
    {List(<<Meta, List(es)>>) : es \in UNION {[1..n -> WbEntries] : n \in 0..MaxEntries}}
        \cup {List(<<Meta, None>>), List(<<Meta>>), List(<<>>), None, Meta}

\* rows handed to clean_data: the columns the adapters write, each of Country,
\* Year, Indicator_Name and Value also missing or not a number
FrameCountries == {<<"BRA", Str("Brazil")>>, <<"MEX", Str("Mexico")>>, <<"BRA", None>>}
FrameYears == {None, Num(2018), Num(2024), Str("2024"), Str("abc")}
FrameIndicators ==
    {<<"LUR", Str("Unemployment Rate"), "IMF">>, <<"SP.POP.TOTL", Str("Population"), "World Bank">>,
     <<"LUR", None, "IMF">>}
FrameValues == {None, Num(5), Str("7"), Str("abc")}
FrameRows ==
    {[Country_Code |-> c[1], Country |-> c[2], Region |-> "Latin America", Year |-> y,
      Indicator_Name |-> i[2], Indicator_Code |-> i[1], Value |-> v, Source |-> i[3]] :
        <<c, y, i, v>> \in FrameCountries \X FrameYears \X FrameIndicators \X FrameValues}
Frames == UNION {[1..n -> FrameRows] : n \in 0..MaxRows}

\* the replies a run of main() is given: one in-range record, none, and a reply
\* the adapter cannot parse
MainImfReplies(code) ==
    {ImfReply(code, Dict(<< <<"BRA", Dict(<< <<"2018", Num(5)>> >>)>> >>)),
     ImfReply(code, Dict(<< <<"BRA", Dict(<< <<"2025", Num(5)>> >>)>> >>)),
     ImfReply(code, Dict(<< <<"BRA", List(<<>>)>> >>))}

MainWbReplies ==
    {List(<<Meta, List(<<WbEntry(Str("BRA"), Str("2018"), Str("7"))>>)>>),
     List(<<Meta>>),
     List(<<Meta, None>>)}

(***************************************************************************)
(* make_request (lines 134-158).                                           *)
(***************************************************************************)
\* what a GET can raise: requests.get a ConnectionError or Timeout, and
\* raise_for_status an HTTPError
Failures == {"ConnectionError", "HTTPError"}

\* a variant of IsRequestException that catches connection errors only
IsConnectionError(e) == e = "ConnectionError"

\* except requests.exceptions.RequestException (line 151)
IsRequestException(e) == e \in {"ConnectionError", "HTTPError"}

\* if attempt < max_retries - 1   (line 153)
MayRetry(a) == a < max_retries - 1

\* line 150: the GET succeeded, make_request returns the parsed JSON
GetSucceeds(json) ==
    /\ pc = "request"
    /\ attempt < max_retries
    /\ outcomes' = Append(outcomes, [kind |-> "ok", body |-> json])
    /\ response' = json
    /\ pc' = "parse"
    /\ UNCHANGED <<mode, idx, attempt, indicator_code, country_codes, data_points,
                   raised, logged, all_data, calls, df, df_clean, files, reported,
                   now, timestamp>>

\* lines 151-157: the GET raised e
GetFails(e) ==
    /\ pc = "request"
    /\ attempt < max_retries
    /\ outcomes' = Append(outcomes, [kind |-> e, body |-> None])
    /\ IF ~IsRequestException(e)
       THEN /\ raised' = e
            /\ pc' = "raised"
            /\ UNCHANGED <<attempt, response>>
       ELSE /\ raised' = raised
            /\ IF MayRetry(attempt) /\ attempt + 1 < max_retries
               THEN \* sleep(2 ** attempt), then the next iteration
                    /\ attempt' = attempt + 1
                    /\ UNCHANGED <<pc, response>>
               ELSE \* return None: line 157, or line 158 once the range is exhausted
                    /\ response' = None
                    /\ pc' = "parse"
                    /\ attempt' = attempt
    /\ UNCHANGED <<mode, idx, indicator_code, country_codes, data_points, logged,
                   all_data, calls, df, df_clean, files, reported, now, timestamp>>

make_request ==
    /\ pc = "request"
    /\ \/ \E json \in (IF calls[Len(calls)][1] = "IMF" THEN MainImfReplies(indicator_code)
                       ELSE MainWbReplies) : GetSucceeds(json)
       \/ \E e \in Failures : GetFails(e)

(***************************************************************************)
(* The adapters, from make_request's return on.                            *)
(***************************************************************************)
AdapterReturns(r) ==
    /\ IF r.raised # "none"
       THEN /\ raised' = r.raised
            /\ pc' = "raised"
            /\ UNCHANGED <<data_points, logged>>
       ELSE /\ data_points' = r.data
            /\ logged' = r.logged
            /\ pc' = "returned"
            /\ raised' = raised
    /\ UNCHANGED <<mode, idx, attempt, outcomes, indicator_code, country_codes,
                   response, all_data, calls, df, df_clean, files, reported, now,
                   timestamp>>

ImfParse ==
    /\ pc = "parse"
    /\ calls[Len(calls)][1] = "IMF"
    /\ AdapterReturns(get_imf_data(indicator_code, country_codes, response))

WbParse ==
    /\ pc = "parse"
    /\ calls[Len(calls)][1] = "World Bank"
    /\ AdapterReturns(get_world_bank_data(indicator_code, country_codes, response))

(***************************************************************************)
(* main (lines 331-412).                                                   *)
(***************************************************************************)
\* lines 351-352: the next fund indicator
MainCallImf ==
    /\ mode = "main"
    /\ pc = "imf_loop"
    /\ indicator_code' = IMF_KEYS[idx]
    /\ country_codes' = COUNTRY_KEYS
    /\ calls' = Append(calls, <<"IMF", IMF_KEYS[idx]>>)
    /\ pc' = "request"
    /\ attempt' = 0
    /\ outcomes' = <<>>
    /\ UNCHANGED <<mode, idx, response, data_points, raised, logged, all_data, df,
                   df_clean, files, reported, now, timestamp>>

\* lines 360-361: the next bank indicator
MainCallWb ==
    /\ mode = "main"
    /\ pc = "wb_loop"
    /\ indicator_code' = WB_KEYS[idx]
    /\ country_codes' = COUNTRY_KEYS
    /\ calls' = Append(calls, <<"World Bank", WB_KEYS[idx]>>)
    /\ pc' = "request"
    /\ attempt' = 0
    /\ outcomes' = <<>>
    /\ UNCHANGED <<mode, idx, response, data_points, raised, logged, all_data, df,
                   df_clean, files, reported, now, timestamp>>

\* lines 353-354 and 362-363: all_data.extend(...), sleep, and the loop's step
MainExtend ==
    /\ mode = "main"
    /\ pc = "returned"
    /\ all_data' = all_data \o data_points
    /\ LET source == calls[Len(calls)][1]
           last == IF source = "IMF" THEN Len(IMF_KEYS) ELSE Len(WB_KEYS)
       IN  IF idx < last THEN /\ idx' = idx + 1
                              /\ pc' = IF source = "IMF" THEN "imf_loop" ELSE "wb_loop"
           ELSE /\ idx' = 1
                /\ pc' = IF source = "IMF" THEN "wb_loop" ELSE "process"
    \* the frames of the adapter and of make_request are gone
    /\ attempt' = 0 /\ outcomes' = <<>> /\ response' = None /\ logged' = FALSE
    /\ UNCHANGED <<mode, indicator_code, country_codes, data_points, raised, calls,
                   df, df_clean, files, reported, now, timestamp>>

\* datetime.now().strftime("%Y%m%d_%H%M%S") (line 384): the clock to the second
strftime(t) == t \div TicksPerSecond

\* a variant of Empty that never finds a frame empty
NeverEmpty(d) == FALSE

\* df.empty, imf_df.empty, wb_df.empty (lines 370, 394, 397)
Empty(d) == d = <<>>

\* lines 366-384: the frame, the empty check, cleaning, the run's timestamp
Process ==
    /\ mode = "main"
    /\ pc = "process"
    /\ df' = all_data
    /\ IF Empty(all_data)
       THEN /\ reported' = TRUE
            /\ pc' = "done"
            /\ UNCHANGED <<df_clean, timestamp>>
       ELSE /\ df_clean' = clean_data(all_data)
            /\ timestamp' = strftime(now)
            /\ pc' = "export_master"
            /\ UNCHANGED reported
    /\ UNCHANGED <<mode, idx, attempt, outcomes, indicator_code, country_codes,
                   response, data_points, raised, logged, all_data, calls, files, now>>

\* export_to_csv(df, filename) (lines 310-324)
export_to_csv(d, prefix, ts) == Append(files, [name |-> prefix, ts |-> ts, rows |-> d])

BySource(d, source) == SelectSeq(d, LAMBDA r : r.Source = source)

\* the file name's timestamp (lines 387, 395, 398)
FileStamp == timestamp

Export(from, prefix, d, always, to) ==
    /\ mode = "main"
    /\ pc = from
    /\ files' = IF always \/ ~Empty(d) THEN export_to_csv(d, prefix, FileStamp) ELSE files
    /\ pc' = to
    /\ UNCHANGED <<mode, idx, attempt, outcomes, indicator_code, country_codes,
                   response, data_points, raised, logged, all_data, calls, df,
                   df_clean, reported, now, timestamp>>

\* lines 387-388
ExportMaster == Export("export_master", "economic_data_master", df_clean, TRUE, "export_imf")
\* lines 391, 394-395
ExportImf == Export("export_imf", "imf_data", BySource(df_clean, "IMF"), FALSE, "export_wb")
\* lines 392, 397-398
ExportWb == Export("export_wb", "world_bank_data", BySource(df_clean, "World Bank"), FALSE, "done")

\* the clock advances while the files are written
Tick ==
    /\ mode = "main"
    /\ pc \in {"export_master", "export_imf", "export_wb"}
    /\ now < MaxClock
    /\ now' = now + 1
    /\ UNCHANGED <<mode, pc, idx, attempt, outcomes, indicator_code, country_codes,
                   response, data_points, raised, logged, all_data, calls, df,
                   df_clean, files, reported, timestamp>>

\* clean_data started alone on a frame
Clean ==
    /\ mode = "fn"
    /\ pc = "clean"
    /\ df_clean' = clean_data(df)
    /\ pc' = "cleaned"
    /\ UNCHANGED <<mode, idx, attempt, outcomes, indicator_code, country_codes,
                   response, data_points, raised, logged, all_data, calls, df, files,
                   reported, now, timestamp>>

(***************************************************************************)
(* Specifications.                                                         *)
(***************************************************************************)
Idle ==
    /\ idx = 1 /\ attempt = 0 /\ outcomes = <<>> /\ data_points = <<>>
    /\ raised = "none" /\ logged = FALSE /\ all_data = <<>> /\ df_clean = <<>>
    /\ files = <<>> /\ reported = FALSE /\ now = 0 /\ timestamp = -1

\* main() at line 345
Init ==
    /\ mode = "main" /\ pc = "imf_loop"
    /\ indicator_code = "" /\ country_codes = <<>> /\ response = None
    /\ calls = <<>> /\ df = <<>>
    /\ Idle

Next ==
    \/ MainCallImf \/ MainCallWb \/ make_request \/ ImfParse \/ WbParse \/ MainExtend
    \/ Process \/ ExportMaster \/ ExportImf \/ ExportWb \/ Tick

Spec == Init /\ [][Next]_vars

\* an adapter holding make_request's reply, or clean_data holding a frame
InitFn ==
    /\ mode = "fn"
    /\ Idle
    /\ \/ /\ pc = "parse" /\ indicator_code = "LUR" /\ calls = << <<"IMF", "LUR">> >>
          /\ country_codes \in ReqLists
          /\ response \in ImfReplies("LUR")
          /\ df = <<>>
       \/ /\ pc = "parse" /\ indicator_code = "SP.POP.TOTL"
          /\ calls = << <<"World Bank", "SP.POP.TOTL">> >>
          /\ country_codes \in ReqLists
          /\ response \in WbReplies
          /\ df = <<>>
       \/ /\ pc = "clean" /\ indicator_code = "" /\ calls = <<>>
          /\ country_codes = <<>> /\ response = None
          /\ df \in Frames

NextFn == ImfParse \/ WbParse \/ Clean

SpecFn == InitFn /\ [][NextFn]_vars

(***************************************************************************)
(* Claims.                                                                 *)
(***************************************************************************)
AllFailed(o) == \A i \in 1..Len(o) : o[i].kind \in Failures

\* C2: make_request issues at most 3 GETs per call; it returns the parsed JSON of
\* the first GET that succeeds and issues none after it; when all 3 GETs fail
\* with a transport or status failure it returns None, and no such failure
\* escapes it as an exception.
C2_MakeRequestBounded ==
    mode = "main" =>
        /\ Len(outcomes) <= max_retries
        /\ AllFailed(SubSeq(outcomes, 1, Len(outcomes) - 1))
        /\ raised \notin Failures
        /\ pc = "request" => AllFailed(outcomes) /\ Len(outcomes) = attempt
        /\ pc = "parse" =>
              LET last == outcomes[Len(outcomes)] IN
              \/ last.kind = "ok" /\ response = last.body
              \/ Len(outcomes) = max_retries /\ AllFailed(outcomes) /\ response = None

\* C2's case: a call whose 3 GETs all failed has returned None to the adapter
C2_Witness ==
    /\ mode = "main" /\ pc = "parse" /\ response = None
    /\ Len(outcomes) = max_retries /\ AllFailed(outcomes)

\* the adapter calls main() makes, in configuration order
ExpectedCalls ==
    [i \in 1..Len(IMF_KEYS) |-> <<"IMF", IMF_KEYS[i]>>]
        \o [i \in 1..Len(WB_KEYS) |-> <<"World Bank", WB_KEYS[i]>>]

IsSuffix(s, whole) ==
    Len(s) <= Len(whole) /\ SubSeq(whole, Len(whole) - Len(s) + 1, Len(whole)) = s

\* C1: whatever calls fail, main() is never aborted: it invokes the fund adapter
\* once per fund indicator and then the bank adapter once per bank indicator, in
\* configuration order, and what each call returned is in all_data.
C1_PipelineNeverAborted ==
    mode = "main" =>
        /\ calls = SubSeq(ExpectedCalls, 1, Len(calls))
        /\ pc # "raised"
        /\ pc \in {"process", "export_master", "export_imf", "export_wb", "done"}
              => calls = ExpectedCalls
        /\ pc # "returned" => IsSuffix(data_points, all_data)

FileNames == {files[i].name : i \in 1..Len(files)}

\* C5: with nothing retrieved main() reports it and ends without exporting; else
\* it writes the master file, and the imf_data / world_bank_data file exactly when
\* the cleaned rows of that source are not empty, every file name of the run with
\* the one timestamp.
C5_ExportPolicy ==
    mode = "main" =>
        /\ reported => files = <<>>
        /\ \A i, j \in 1..Len(files) : files[i].ts = files[j].ts
        /\ pc = "done" =>
              IF all_data = <<>> THEN reported /\ files = <<>>
              ELSE /\ ~reported
                   /\ df_clean = clean_data(all_data)
                   /\ files[1] = [name |-> "economic_data_master", ts |-> strftime(0),
                                  rows |-> df_clean]
                   /\ Cardinality(FileNames) = Len(files)
                   /\ FileNames \subseteq {"economic_data_master", "imf_data", "world_bank_data"}
                   /\ "imf_data" \in FileNames
                        <=> \E i \in 1..Len(df_clean) : df_clean[i].Source = "IMF"
                   /\ "world_bank_data" \in FileNames
                        <=> \E i \in 1..Len(df_clean) : df_clean[i].Source = "World Bank"
                   /\ \A i \in 1..Len(files) :
                        files[i].rows = BySource(df_clean, IF files[i].name = "imf_data"
                                                           THEN "IMF" ELSE "World Bank")
                        \/ files[i].name = "economic_data_master"

\* C5's case: a run that retrieved fund records only has written the master and
\* the imf_data file, while the clock moved on between them
C5_Witness ==
    /\ mode = "main" /\ pc = "done" /\ now > 0
    /\ Len(files) = 2 /\ files[2].name = "imf_data"

IsImfCall == calls # <<>> /\ calls[Len(calls)][1] = "IMF"
IsWbCall == calls # <<>> /\ calls[Len(calls)][1] = "World Bank"
FnEnded == mode = "fn" /\ pc \in {"returned", "raised"}
Requested == {country_codes[i] : i \in 1..Len(country_codes)}
Count(d, P(_)) == Cardinality({i \in 1..Len(d) : P(d[i])})

\* a reply is a mapping at every level: values -> indicator -> country -> year
ImfMapped(resp, code) ==
    /\ resp.t = "dict" /\ "values" \in Keys(resp)
    /\ Lookup(resp, "values").t = "dict" /\ code \in Keys(Lookup(resp, "values"))
    /\ LET ind == Lookup(Lookup(resp, "values"), code) IN
       /\ ind.t = "dict"
       /\ \A i \in 1..Len(ind.items) : ind.items[i][2].t = "dict"

ImfEntry(resp, code, c) == Lookup(Lookup(Lookup(resp, "values"), code), c)
ImfCountriesOf(resp, code) == Keys(Lookup(Lookup(resp, "values"), code))

\* a well-formed reply: a mapping at every level, every year key a year and every
\* value a number
ImfWellFormed(resp, code) ==
    /\ ImfMapped(resp, code)
    /\ \A c \in ImfCountriesOf(resp, code) :
          \A i \in 1..Len(ImfEntry(resp, code, c).items) :
              LET kv == ImfEntry(resp, code, c).items[i] IN
              kv[1] \in DOMAIN Numerals /\ kv[2].t = "num"

\* the (country, year, value) of a well-formed reply that are requested and in bounds
ImfExpected(resp, code) ==
    UNION {{<<c, Numerals[kv[1]], kv[2]>> :
              kv \in {x \in SeqToSet(ImfEntry(resp, code, c).items) :
                        START_YEAR <= Numerals[x[1]] /\ Numerals[x[1]] <= END_YEAR}} :
           c \in Requested \cap ImfCountriesOf(resp, code)}

\* C3: on a well-formed fund-API reply, for requested countries of COUNTRIES,
\* get_imf_data emits exactly one record per (requested country, year) of the
\* reply with START_YEAR <= year <= END_YEAR, carrying that country, year and
\* value, and no other record.
C3_ImfOneRecordPerPair ==
    (FnEnded /\ IsImfCall /\ ImfWellFormed(response, indicator_code)
             /\ Requested \subseteq DOMAIN COUNTRIES) =>
        /\ pc = "returned"
        /\ \A e \in ImfExpected(response, indicator_code) :
              Count(data_points, LAMBDA r : r.Country_Code = e[1] /\ r.Year = Num(e[2])) = 1
        /\ \A i \in 1..Len(data_points) :
              LET r == data_points[i] IN
              /\ <<r.Country_Code, r.Year.v, r.Value>> \in ImfExpected(response, indicator_code)
              /\ r.Country = Str(COUNTRIES[r.Country_Code].name)
              /\ r.Region = COUNTRIES[r.Country_Code].region
              /\ r.Indicator_Code = indicator_code /\ r.Source = "IMF"
              /\ r.Indicator_Name = Str(IMF_INDICATORS[indicator_code])

\* C3's case: BRA with a year inside and a year outside the bounds yields the one
\* record of the year inside
C3_Witness ==
    /\ mode = "fn" /\ pc = "returned" /\ IsImfCall
    /\ country_codes = <<"MEX", "BRA">>
    /\ response = ImfReply("LUR", Dict(<< <<"BRA", Dict(<< <<"2018", Num(5)>>,
                                                           <<"2025", Num(5)>> >>)>> >>))
    /\ Len(data_points) = 1 /\ data_points[1].Year = Num(2018)

\* C4: every record either adapter emits, for any reply and any requested list,
\* has a Country_Code that is a key of COUNTRIES.
C4_CountryCodeConfigured ==
    pc = "returned" =>
        \A i \in 1..Len(data_points) : data_points[i].Country_Code \in DOMAIN COUNTRIES

\* C4's case: a code outside COUNTRIES is requested and the reply holds a value
\* for it in bounds; the records before it are returned, none for it
C4_Witness ==
    /\ mode = "fn" /\ pc = "returned" /\ IsImfCall
    /\ country_codes = <<"BRA", "XXX">>
    /\ response = ImfReply("LUR", Dict(<< <<"BRA", Dict(<< <<"2018", Num(5)>> >>)>>,
                                          <<"XXX", Dict(<< <<"2018", Num(5)>> >>)>> >>))
    /\ Len(data_points) = 1 /\ logged

\* a bank-API entry that is well formed: an object whose country is one of
\* COUNTRIES, whose date is a year in bounds and whose value is a number
IsNumber(x) == x.t = "num" \/ (x.t = "str" /\ x.s \in DOMAIN Numerals)
NumberOf(x) == IF x.t = "num" THEN x.v ELSE Numerals[x.s]
Field(e, k) == IF k \in Keys(e) THEN Lookup(e, k) ELSE Absent
WbGood(e) ==
    /\ e.t = "dict"
    /\ Field(e, "countryiso3code").t = "str"
    /\ Field(e, "countryiso3code").s \in DOMAIN COUNTRIES
    /\ IsNumber(Field(e, "date"))
    /\ START_YEAR <= NumberOf(Field(e, "date")) /\ NumberOf(Field(e, "date")) <= END_YEAR
    /\ IsNumber(Field(e, "value"))

WbTwoPart(resp) == resp.t = "list" /\ Len(resp.elems) >= 2

\* the records of the well-formed entries, in the reply's order
WbExpected(resp, code) ==
    LET good == SelectSeq(resp.elems[2].elems, WbGood) IN
    [i \in 1..Len(good) |->
        [Country_Code |-> Field(good[i], "countryiso3code").s,
         Country |-> Str(COUNTRIES[Field(good[i], "countryiso3code").s].name),
         Region |-> COUNTRIES[Field(good[i], "countryiso3code").s].region,
         Year |-> Num(NumberOf(Field(good[i], "date"))),
         Indicator_Name |-> Str(WB_INDICATORS[code]), Indicator_Code |-> code,
         Value |-> Num(NumberOf(Field(good[i], "value"))), Source |-> "World Bank"]]

\* C8: get_world_bank_data never aborts on a reply: an absent, non-list or
\* one-element reply yields no record, and whatever the second element holds, the
\* malformed entries are skipped and the well-formed ones emitted.
C8_WbNeverAborts ==
    (FnEnded /\ IsWbCall) =>
        /\ pc = "returned"
        /\ ~WbTwoPart(response) => data_points = <<>>
        /\ (WbTwoPart(response) /\ response.elems[2].t = "list")
              => data_points = WbExpected(response, indicator_code)

\* the reply is no mapping at a level the adapter reads: the reply itself, its
\* "values", the indicator's entry, or the entry of a requested country
ImfStructureFails(resp, code) ==
    /\ Truthy(resp)
    /\ \/ resp.t # "dict"
       \/ /\ "values" \in Keys(resp)
          /\ \/ Lookup(resp, "values").t # "dict"
             \/ /\ code \in Keys(Lookup(resp, "values"))
                /\ \/ Lookup(Lookup(resp, "values"), code).t # "dict"
                   \/ \E c \in Requested \cap ImfCountriesOf(resp, code) :
                         ImfEntry(resp, code, c).t # "dict"

\* C9: get_imf_data never raises on a reply: a reply that is no mapping at some
\* level (its "values", the indicator's entry, a country's entry) is caught and
\* yields zero records for the indicator.
C9_ImfNeverRaises ==
    (FnEnded /\ IsImfCall) =>
        /\ pc = "returned"
        /\ ImfStructureFails(response, indicator_code) => data_points = <<>>

\* what the fund adapter read for a record: the reply's value at its country and year
ImfRaw(resp, code, r) ==
    LET items == ImfEntry(resp, code, r.Country_Code).items
        i == CHOOSE j \in 1..Len(items) :
                 items[j][1] \in DOMAIN Numerals /\ Numerals[items[j][1]] = r.Year.v
    IN  items[i][2]

Convertible(x) == IsNumber(x)
Kept(r) == r.Country # None /\ r.Year # None /\ r.Indicator_Name # None

\* C10 as stated: a raw value that fails numeric conversion in an adapter gives no
\* record, so every record leaving an adapter has a numeric Value; in clean_data a
\* record whose Value cannot be converted is kept, its Value null.
C10_TwoTierPolicy ==
    /\ (mode = "fn" /\ pc = "returned") =>
          \A i \in 1..Len(data_points) : data_points[i].Value.t = "num"
    /\ (mode = "fn" /\ pc = "cleaned") =>
          /\ Len(df_clean) = Count(df, Kept)
          /\ Count(df_clean, LAMBDA r : r.Value = None)
                = Count(df, LAMBDA r : Kept(r) /\ ~Convertible(r.Value))

\* C10 as amended: the same, except that the fund adapter turns the empty string
\* into a record with a null Value: a record leaving the bank adapter has a numeric
\* Value, one leaving the fund adapter a numeric Value converted from its raw value,
\* or null when the raw value is "".
C10_TwoTierPolicyAmended ==
    /\ (mode = "fn" /\ pc = "returned" /\ IsWbCall) =>
          /\ \A i \in 1..Len(data_points) : data_points[i].Value.t = "num"
          /\ (WbTwoPart(response) /\ response.elems[2].t = "list") =>
                Len(data_points) <= Count(response.elems[2].elems,
                                          LAMBDA e : e.t = "dict" /\ Convertible(Field(e, "value")))
    /\ (mode = "fn" /\ pc = "returned" /\ IsImfCall) =>
          \A i \in 1..Len(data_points) :
              LET raw == ImfRaw(response, indicator_code, data_points[i]) IN
              IF raw = Str("") THEN data_points[i].Value = None
              ELSE Convertible(raw) /\ data_points[i].Value = Num(NumberOf(raw))
    /\ (mode = "fn" /\ pc = "cleaned") =>
          /\ Len(df_clean) = Count(df, Kept)
          /\ Count(df_clean, LAMBDA r : r.Value = None)
                = Count(df, LAMBDA r : Kept(r) /\ ~Convertible(r.Value))
          /\ \A i \in 1..Len(df_clean) : df_clean[i].Value = None \/ df_clean[i].Value.t = "num"

\* C10's case: the fund adapter read "" for a value and text for another, and
\* returned the one record of the first, its Value null
C10_Witness ==
    /\ mode = "fn" /\ pc = "returned" /\ IsImfCall
    /\ country_codes = <<"BRA">>
    /\ response = ImfReply("LUR", Dict(<< <<"BRA", Dict(<< <<"2018", Str("")>>,
                                                           <<"2024", Str("abc")>> >>)>> >>))
    /\ Len(data_points) = 1 /\ data_points[1].Value = None

\* every Year of the frame is missing or a number
ValidYears(d) == \A i \in 1..Len(d) : d[i].Year = None \/ IsNumber(d[i].Year)

\* C6: clean_data is idempotent on valid input (every Year missing or a number):
\* cleaning its output again gives the same rows in the same order.
C6_CleanIdempotent ==
    (mode = "fn" /\ pc = "cleaned" /\ ValidYears(df)) => clean_data(df_clean) = df_clean

\* C6's case: two rows with the same sort key and different values were cleaned
C6_Witness ==
    /\ mode = "fn" /\ pc = "cleaned" /\ ValidYears(df)
    /\ Len(df_clean) = 2 /\ df_clean[1] # df_clean[2]
    /\ df_clean[1].Country = df_clean[2].Country
    /\ df_clean[1].Year = df_clean[2].Year
    /\ df_clean[1].Indicator_Name = df_clean[2].Indicator_Name

\* (Country, Year, Indicator_Name) of row a is not after that of row b, a missing
\* Year after every number
RowLeq(a, b) ==
    LET ca == Rank(CountryOrder, a.Country)
        cb == Rank(CountryOrder, b.Country)
        na == Rank(IndicatorOrder, a.Indicator_Name)
        nb == Rank(IndicatorOrder, b.Indicator_Name)
    IN  \/ ca < cb
        \/ /\ ca = cb
           /\ \/ a.Year # None /\ (b.Year = None \/ a.Year.v < b.Year.v)
              \/ a.Year = b.Year /\ na <= nb

\* C7: the output of clean_data is non-decreasing in (Country, Year,
\* Indicator_Name) and holds exactly the input rows whose Country, Year and
\* Indicator_Name are not missing, none added and none of them dropped.
C7_CleanSortedAndComplete ==
    (mode = "fn" /\ pc = "cleaned") =>
        /\ \A i \in 1..Len(df_clean) - 1 : RowLeq(df_clean[i], df_clean[i + 1])
        /\ Len(df_clean) = Count(df, Kept)
        /\ \A i \in 1..Len(df) :
              Kept(df[i]) =>
                  Count(df_clean, LAMBDA r : r = Coerce(df[i]))
                      = Count(df, LAMBDA r : Kept(r) /\ Coerce(r) = Coerce(df[i]))

\* C7's case: two rows were handed over out of order and came back in order
C7_Witness ==
    /\ mode = "fn" /\ pc = "cleaned" /\ Len(df) = 2 /\ Len(df_clean) = 2
    /\ df_clean[1] = Coerce(df[2]) /\ df_clean[2] = Coerce(df[1])
    /\ ~RowLeq(Coerce(df[1]), Coerce(df[2]))

====
